---- MODULE Spec2Model ----
(***************************************************************************)
(* Model of nsm.py, the network stability monitor: the monitoring loop of  *)
(* main(), deep_check(), ping() and website_alive().                        *)
(*                                                                         *)
(* Time is counted in ticks of a quarter of a second, so that the          *)
(* subprocess timeout of ping (timeout * 1.25) is a whole number of ticks. *)
(* time.time() is the variable clock; it only moves while the control      *)
(* thread is inside a blocking call (resolve, subprocess.run, join, sleep).*)
(***************************************************************************)
EXTENDS Integers, Sequences, FiniteSets

\* ---- bounds of the model ------------------------------------------------
MaxTime == 9
MaxStartClock == 1
MaxOversleep == 1
MaxIcmp == 1
MaxWeb == 2
ThresholdDen == 4

\* ---- Config -------------------------------------------------------------
\* MONITORING_INTERVAL = 1.0 second, in ticks
MONITORING_INTERVAL == 4
\* TIMEOUT = 1 second, in ticks
TIMEOUT == 4
\* number of DNS_PAIRS
NumDnsPairs == 5

\* Python's None, for the variables that hold a time or nothing
None == -1

\* log lines of the outage life cycle
NewOutage == "New outage detected"
StillDown == "Already knew network down, network is still down"
FalseAlarm == "False alarm, deep check of network passed; no outage"
SawRecovery == "Saw recovery from network outage"

VARIABLES
    pc,                 \* where the control thread is
    clock,              \* time.time()
    ICMP_TARGETS,       \* len(config.ICMP_TARGETS)
    WEB_TARGETS,        \* len(config.WEB_TARGETS)
    OUTAGE_THRESHOLD,   \* numerator of config.OUTAGE_THRESHOLD over ThresholdDen
    cycle_pos,          \* index of the pair itertools.cycle yields next
    dns_pair,           \* index of the pair of the current iteration
    iteration,          \* number of the current iteration (0, 1, 2, ...), None before the first
    answer,             \* what resolve left in answer: "unbound", "None" or "Answer"
    deep_checks,        \* calls of deep_check made in the current iteration
    loop_start,
    start_of_failure,
    last_success,
    outage_duration_seconds,
    time_taken,
    time_to_sleep_in_seconds,
    call_start,         \* clock when the current blocking call was entered
    probes_run,         \* deep_check: probes completed so far in this invocation
    number_failures,    \* deep_check: failures counted so far
    probe_results,      \* what each probe of this iteration's deep_check returned
    probed,             \* the targets this iteration's deep_check has started a probe for
    process,            \* website_alive: the child process: "none", "running", "exited"
    queue,              \* website_alive: the SimpleQueue's content
    log,                \* outage life cycle lines logged in the current iteration
    outage_open         \* a NewOutage line was logged and no SawRecovery line followed it

vars == <<pc, clock, ICMP_TARGETS, WEB_TARGETS, OUTAGE_THRESHOLD, cycle_pos,
          dns_pair, iteration, loop_start, start_of_failure, last_success,
          outage_duration_seconds, time_taken, time_to_sleep_in_seconds,
          call_start, probes_run, number_failures, probe_results, process,
          queue, log,
          outage_open, answer, deep_checks, probed>>

config == <<ICMP_TARGETS, WEB_TARGETS, OUTAGE_THRESHOLD>>
cursor == <<cycle_pos, dns_pair, iteration>>
outage == <<start_of_failure, last_success, outage_duration_seconds, log, outage_open>>
pacing == <<loop_start, time_taken, time_to_sleep_in_seconds>>
deep == <<probes_run, number_failures, probe_results, probed>>
child == <<process, queue>>
fast == <<answer, deep_checks>>

\* ---- pure helpers -------------------------------------------------------

\* truth value of a time-or-None in `if start_of_failure:`
Truthy(x) == x # None /\ x # 0

\* variant: the comparison is not strict
IsOutageAtLeast(failures, total, threshold) ==
    failures * ThresholdDen >= total * threshold

\* deep_check's return value
IsOutage(failures, total, threshold) ==
    failures * ThresholdDen > total * threshold

\* timeout handed to subprocess.run: timeout * 1.25
PingDeadline == (TIMEOUT * 5) \div 4

\* variant: the start time is never assigned
StartAfterConfirmUnset(sof, now) == sof

\* start_of_failure after deep_check confirmed the outage
StartAfterConfirm(sof, now) == IF Truthy(sof) THEN sof ELSE now

\* line logged after deep_check confirmed the outage
LogAfterConfirm(sof) == IF Truthy(sof) THEN StillDown ELSE NewOutage

\* variant: a false alarm clears the start time
ResetOnFalseAlarm(sof) == None

\* start_of_failure after deep_check did not confirm
StartAfterFalseAlarm(sof) == sof

\* variants: the test of the success branch is inverted, or is missing
LogsRecoveryWhenUp(sof) == ~Truthy(sof)
LogsRecoveryAlways(sof) == TRUE

\* does the success branch log the recovery
LogsRecovery(sof) == Truthy(sof)

\* the pacing decision at the end of an iteration
MustSleep(taken) == taken < MONITORING_INTERVAL
\* variant: the time already taken is not subtracted
SleepWholeInterval(taken) == MONITORING_INTERVAL
\* the argument of time.sleep
TimeToSleep(taken) == MONITORING_INTERVAL - taken

\* outage_open after a line is logged
OpenAfter(open, line) ==
    IF line = NewOutage THEN TRUE
    ELSE IF line = SawRecovery THEN FALSE
    ELSE open

\* ---- initial state ------------------------------------------------------
Init ==
    /\ pc = "for"
    /\ clock \in 0..MaxStartClock
    /\ ICMP_TARGETS \in 0..MaxIcmp
    /\ WEB_TARGETS \in 0..MaxWeb
    /\ OUTAGE_THRESHOLD \in 0..ThresholdDen
    /\ cycle_pos = 0
    /\ dns_pair = None
    /\ iteration = None
    /\ loop_start = None
    /\ start_of_failure = None
    /\ last_success = None
    /\ outage_duration_seconds = None
    /\ time_taken = None
    /\ time_to_sleep_in_seconds = None
    /\ call_start = None
    /\ probes_run = 0
    /\ number_failures = 0
    /\ probe_results = <<>>
    /\ probed = <<>>
    /\ answer = "unbound"
    /\ deep_checks = 0
    /\ process = "none"
    /\ queue = <<>>
    /\ log = <<>>
    /\ outage_open = FALSE

\* ---- the end of an iteration -------------------------------------------
\* time_taken, the test against MONITORING_INTERVAL and the call of sleep
Pace ==
    /\ time_taken' = clock - loop_start
    /\ IF MustSleep(clock - loop_start)
       THEN /\ time_to_sleep_in_seconds' = TimeToSleep(clock - loop_start)
            /\ call_start' = clock
            /\ pc' = "sleep"
       ELSE /\ time_to_sleep_in_seconds' = time_to_sleep_in_seconds
            /\ call_start' = None
            /\ pc' = "for"
    /\ UNCHANGED loop_start

\* ---- main: one iteration ------------------------------------------------
\* the for statement takes the next pair, loop_start is read, resolve is called
IterStart ==
    /\ pc = "for"
    /\ dns_pair' = cycle_pos
    /\ cycle_pos' = (cycle_pos + 1) % NumDnsPairs
    /\ iteration' = IF iteration = None THEN 0 ELSE iteration + 1
    /\ loop_start' = clock
    /\ call_start' = clock
    /\ log' = <<>>
    /\ probe_results' = <<>>
    /\ probed' = <<>>
    /\ deep_checks' = 0
    /\ pc' = "resolve"
    /\ UNCHANGED <<clock, config, answer, start_of_failure, last_success,
                   outage_duration_seconds, outage_open, time_taken,
                   time_to_sleep_in_seconds, probes_run, number_failures, child>>

\* variant: the test of the answer is inverted
NotAnswerInverted(ans) == ans # "None"

\* the test `if not answer`
NotAnswer(ans) == ans = "None"

\* variant: the operands of the subtraction are swapped
OutageDurationSwapped(success, start) == start - success

\* outage_duration_seconds = last_success - start_of_failure
OutageDuration(success, start) == success - start

\* resolve returns, or raises an exception that is caught, and leaves ans in
\* answer: without an answer deep_check is entered, with one the else branch
\* and the pacing are run
ResolveReturns(ans) ==
    /\ pc = "resolve"
    /\ answer' = ans
    /\ IF NotAnswer(ans)
       THEN /\ pc' = "deep_check"
            /\ deep_checks' = deep_checks + 1
            /\ probes_run' = 0
            /\ number_failures' = 0
            /\ probe_results' = <<>>
            /\ probed' = <<>>
            /\ call_start' = None
            /\ UNCHANGED <<outage, pacing>>
       ELSE /\ last_success' = clock
            /\ IF LogsRecovery(start_of_failure)
               THEN /\ outage_duration_seconds' = OutageDuration(clock, start_of_failure)
                    /\ log' = Append(log, SawRecovery)
                    /\ outage_open' = OpenAfter(outage_open, SawRecovery)
               ELSE UNCHANGED <<outage_duration_seconds, log, outage_open>>
            /\ start_of_failure' = None
            /\ Pace
            /\ UNCHANGED <<deep, deep_checks>>
    /\ UNCHANGED <<clock, config, cursor, child>>

\* resolve returns an answer: the else branch, then the pacing
ResolveAnswer == ResolveReturns("Answer")

\* resolve raises LifetimeTimeout or NoNameservers: answer = None, deep_check is entered
ResolveFails == ResolveReturns("None")

\* resolve raises another exception (NXDOMAIN, NoAnswer, ...): nothing catches it
ResolveRaises ==
    /\ pc = "resolve"
    /\ pc' = "raised"
    /\ call_start' = None
    /\ UNCHANGED <<clock, config, cursor, fast, outage, pacing, deep, child>>

\* time.sleep returns, not before the requested time has passed
SleepReturns ==
    /\ pc = "sleep"
    /\ clock - call_start >= time_to_sleep_in_seconds
    /\ pc' = "for"
    /\ call_start' = None
    /\ UNCHANGED <<clock, config, cursor, fast, outage, pacing, deep, child>>

\* ---- deep_check ---------------------------------------------------------
\* number_total_checks_made
TotalChecks == ICMP_TARGETS + WEB_TARGETS

\* what website_alive_helper can put on the queue: False after an exception,
\* or the Response, which is true in a boolean context only when its status
\* is below 400 (Response.__bool__ is Response.ok), with or without headers
Responses == {"False", "Response ok headers", "Response ok no headers",
              "Response error headers", "Response error no headers"}
ResponseTruthy(r) == r \in {"Response ok headers", "Response ok no headers"}
HasHeaders(r) == r \in {"Response ok headers", "Response error headers"}

\* website_alive's return value, as a boolean: response and response.headers
WebsiteAliveResult(r) == ResponseTruthy(r) /\ HasHeaders(r)

\* ping's return value: completed_process.returncode == 0
PingResult(returncode) == returncode = 0

\* the ICMP loop calls ping: subprocess.run starts the ping binary
PingStart ==
    /\ pc = "deep_check"
    /\ probes_run < ICMP_TARGETS
    /\ pc' = "ping"
    /\ call_start' = clock
    /\ probed' = Append(probed, <<"icmp", probes_run>>)
    /\ UNCHANGED <<clock, config, cursor, fast, outage, pacing, probes_run,
                   number_failures, probe_results, child>>

\* the ping binary exits with a return code before subprocess.run's timeout
PingReturns(returncode) ==
    /\ pc = "ping"
    /\ clock - call_start <= PingDeadline
    /\ number_failures' = IF PingResult(returncode) THEN number_failures
                          ELSE number_failures + 1
    /\ probe_results' = Append(probe_results, PingResult(returncode))
    /\ probes_run' = probes_run + 1
    /\ pc' = "deep_check"
    /\ call_start' = None
    /\ UNCHANGED <<clock, config, cursor, fast, outage, pacing, probed, child>>

\* subprocess.run raises TimeoutExpired after timeout * 1.25: ping returns False
PingTimeoutExpired ==
    /\ pc = "ping"
    /\ clock - call_start >= PingDeadline
    /\ number_failures' = number_failures + 1
    /\ probe_results' = Append(probe_results, FALSE)
    /\ probes_run' = probes_run + 1
    /\ pc' = "deep_check"
    /\ call_start' = None
    /\ UNCHANGED <<clock, config, cursor, fast, outage, pacing, probed, child>>

\* subprocess.run cannot start the ping binary (FileNotFoundError,
\* PermissionError): ping only catches TimeoutExpired, nothing catches this
PingRaises ==
    /\ pc = "ping"
    /\ clock = call_start
    /\ pc' = "raised"
    /\ call_start' = None
    /\ UNCHANGED <<clock, config, cursor, fast, outage, pacing, deep, child>>

\* the web loop calls website_alive: the queue and the process are created,
\* the process is started and join(timeout) is entered
WebStart ==
    /\ pc = "deep_check"
    /\ probes_run >= ICMP_TARGETS
    /\ probes_run < TotalChecks
    /\ process' = "running"
    /\ queue' = <<>>
    /\ pc' = "join"
    /\ call_start' = clock
    /\ probed' = Append(probed, <<"web", probes_run - ICMP_TARGETS>>)
    /\ UNCHANGED <<clock, config, cursor, fast, outage, pacing, probes_run,
                   number_failures, probe_results>>

\* website_alive_helper puts the response, or False, on the queue and ends
HelperPuts(r) ==
    /\ pc = "join"
    /\ process = "running"
    /\ queue' = Append(queue, r)
    /\ process' = "exited"
    /\ UNCHANGED <<pc, clock, config, cursor, fast, outage, pacing, call_start, deep>>

\* the child process ends without having put anything on the queue
HelperDies ==
    /\ pc = "join"
    /\ process = "running"
    /\ process' = "exited"
    /\ UNCHANGED <<pc, clock, config, cursor, fast, outage, pacing, call_start, deep, queue>>

\* variant: the child is left running
AfterNoTerminate == "running"

\* the child after process.terminate() and process.join()
AfterTerminate == "none"

\* join(timeout) returns: the child has ended or the timeout has passed.
\* A child still alive is terminated and joined and the probe fails; else the
\* result is taken from the queue, and queue.get() blocks on an empty queue.
JoinReturns ==
    /\ pc = "join"
    /\ process = "exited" \/ clock - call_start >= TIMEOUT
    /\ IF process = "running"
       THEN /\ number_failures' = number_failures + 1
            /\ probe_results' = Append(probe_results, FALSE)
            /\ probes_run' = probes_run + 1
            /\ process' = AfterTerminate
            /\ queue' = <<>>
            /\ pc' = "deep_check"
            /\ call_start' = None
       ELSE IF queue # <<>>
       THEN /\ number_failures' = IF WebsiteAliveResult(Head(queue))
                                  THEN number_failures
                                  ELSE number_failures + 1
            /\ probe_results' = Append(probe_results, WebsiteAliveResult(Head(queue)))
            /\ probes_run' = probes_run + 1
            /\ process' = "none"
            /\ queue' = <<>>
            /\ pc' = "deep_check"
            /\ call_start' = None
       ELSE /\ pc' = "queue.get"
            /\ UNCHANGED <<deep, child, call_start>>
    /\ UNCHANGED <<clock, config, cursor, fast, outage, pacing, probed>>

\* variant: the loops stop as soon as the failures exceed the threshold
LoopsStopEarly ==
    \/ probes_run = TotalChecks
    \/ IsOutage(number_failures, TotalChecks, OUTAGE_THRESHOLD)

\* both for loops of deep_check have run to their end
LoopsDone == probes_run = TotalChecks

\* deep_check returns; main updates the outage state and paces the loop
DeepCheckReturns ==
    /\ pc = "deep_check"
    /\ LoopsDone
    /\ IF IsOutage(number_failures, TotalChecks, OUTAGE_THRESHOLD)
       THEN /\ log' = Append(log, LogAfterConfirm(start_of_failure))
            /\ outage_open' = OpenAfter(outage_open, LogAfterConfirm(start_of_failure))
            /\ start_of_failure' = StartAfterConfirm(start_of_failure, clock)
       ELSE /\ log' = Append(log, FalseAlarm)
            /\ outage_open' = OpenAfter(outage_open, FalseAlarm)
            /\ start_of_failure' = StartAfterFalseAlarm(start_of_failure)
    /\ probes_run' = 0
    /\ number_failures' = 0
    /\ UNCHANGED <<probe_results, probed>>
    /\ Pace
    /\ UNCHANGED <<clock, config, cursor, fast, last_success, outage_duration_seconds, child>>

\* ---- time ---------------------------------------------------------------
\* a tick passes while the control thread is inside a blocking call: resolve
\* has no bound but the resolver's own, subprocess.run and join have theirs
Tick ==
    /\ clock < MaxTime
    /\ \/ pc = "resolve"
       \/ pc = "ping" /\ clock - call_start < PingDeadline
       \/ pc = "join" /\ process = "running" /\ clock - call_start < TIMEOUT
       \/ pc = "sleep" /\ clock - call_start < time_to_sleep_in_seconds + MaxOversleep
    /\ clock' = clock + 1
    /\ UNCHANGED <<pc, config, cursor, fast, outage, pacing, call_start, deep, child>>

Next ==
    \/ IterStart
    \/ ResolveAnswer
    \/ ResolveFails
    \/ ResolveRaises
    \/ PingStart
    \/ \E returncode \in 0..2 : PingReturns(returncode)
    \/ PingTimeoutExpired
    \/ PingRaises
    \/ WebStart
    \/ \E r \in Responses : HelperPuts(r)
    \/ HelperDies
    \/ JoinReturns
    \/ DeepCheckReturns
    \/ SleepReturns
    \/ Tick

Spec == Init /\ [][Next]_vars

\* ---- vocabulary of the properties --------------------------------------
Range(seq) == {seq[k] : k \in DOMAIN seq}
Count(seq, x) == Cardinality({k \in DOMAIN seq : seq[k] = x})

\* the step in which deep_check returns to main
DeepCheckStep == pc = "deep_check" /\ pc' \in {"sleep", "for"}
\* the step in which the fast probe succeeds
SuccessStep == pc = "resolve" /\ pc' \in {"sleep", "for"}
\* the control thread is between two iterations
IterationDone == iteration # None /\ pc \in {"sleep", "for"}
\* this iteration's deep_check has returned, and returned true
DeepCheckDone == Range(log) \cap {NewOutage, StillDown, FalseAlarm} # {}
Confirmed == Range(log) \cap {NewOutage, StillDown} # {}

\* C1: deep_check returns true exactly when the number of probes that
\* returned false is greater than the total number of checks times the
\* threshold; on a tie it returns false.
C1_ThresholdRule ==
    DeepCheckDone =>
        /\ Len(probe_results) = TotalChecks
        /\ Confirmed <=>
              Count(probe_results, FALSE) * ThresholdDen
                  > Len(probe_results) * OUTAGE_THRESHOLD

\* a deep check whose failures are exactly at the threshold fraction
C1_Witness ==
    /\ DeepCheckDone
    /\ Count(probe_results, FALSE) > 0
    /\ Count(probe_results, FALSE) * ThresholdDen
           = Len(probe_results) * OUTAGE_THRESHOLD
    /\ ~Confirmed

\* C2: the recovery line is logged only while an outage is open, that is
\* after a "New outage detected" line that no recovery line has closed yet.
C2_EndedOnlyWhenOpen ==
    [][(SawRecovery \in Range(log') /\ SawRecovery \notin Range(log))
          => outage_open]_vars

\* an outage that began in an earlier iteration has just been ended
C2_Witness ==
    /\ IterationDone
    /\ SawRecovery \in Range(log)
    /\ ~outage_open
    /\ outage_duration_seconds > 0

\* C3: after every iteration the start time is set exactly when an outage
\* is open.
C3_StartSetIffActive ==
    IterationDone => ((start_of_failure # None) <=> outage_open)

\* C4: from Up, a failed fast probe that deep_check confirms opens the
\* outage, sets the start time to the current time and logs exactly one
\* "New outage detected" line.
C4_UpToDown ==
    [][(DeepCheckStep /\ ~outage_open
          /\ IsOutage(number_failures, TotalChecks, OUTAGE_THRESHOLD))
          => /\ outage_open'
             /\ start_of_failure' = clock
             /\ Count(log', NewOutage) = 1]_vars

\* an outage has just begun at time 0
C4_Witness ==
    /\ IterationDone
    /\ log = <<NewOutage>>
    /\ outage_open
    /\ start_of_failure = 0
    /\ clock = 0

\* C5: while an outage is open, a failed fast probe that deep_check
\* confirms again leaves the outage open and its start time unchanged, and
\* logs "still down" and no new "New outage detected" line.
C5_DownStaysDown ==
    [][(DeepCheckStep /\ outage_open
          /\ IsOutage(number_failures, TotalChecks, OUTAGE_THRESHOLD))
          => /\ outage_open'
             /\ start_of_failure' = start_of_failure
             /\ NewOutage \notin Range(log')
             /\ StillDown \in Range(log')]_vars

\* C6: while an outage is open, a successful fast probe logs the recovery
\* in that iteration with duration = time of the success - recorded start
\* time, and leaves the outage closed and the start time cleared.
C6_DownToUp ==
    [][(SuccessStep /\ outage_open)
          => /\ SawRecovery \in Range(log')
             /\ outage_duration_seconds' = clock - start_of_failure
             /\ ~outage_open'
             /\ start_of_failure' = None]_vars

\* C7: a failed fast probe that deep_check does not confirm leaves the
\* outage state as it was and logs neither a beginning nor an end; the
\* outage is closed only by a step in which the fast probe succeeded.
C7_FalseAlarmFrame ==
    [][/\ (DeepCheckStep
             /\ ~IsOutage(number_failures, TotalChecks, OUTAGE_THRESHOLD))
          => /\ start_of_failure' = start_of_failure
             /\ outage_open' = outage_open
             /\ NewOutage \notin Range(log')
             /\ SawRecovery \notin Range(log')
       /\ ((outage_open \/ start_of_failure # None)
             /\ ~outage_open' /\ start_of_failure' = None)
          => SuccessStep]_vars

\* a false alarm during an open outage: the start time is still recorded
C7_Witness ==
    /\ IterationDone
    /\ log = <<FalseAlarm>>
    /\ outage_open
    /\ start_of_failure # None
    /\ start_of_failure < loop_start

\* C8: a successful fast probe in the Up state logs no outage line and
\* leaves the state Up with no start time.
C8_UpIdempotent ==
    [][(SuccessStep /\ ~outage_open)
          => /\ log' = log
             /\ ~outage_open'
             /\ start_of_failure' = None
             /\ UNCHANGED outage_duration_seconds]_vars

\* the second iteration has succeeded in the Up state
C8_Witness ==
    /\ IterationDone
    /\ iteration >= 1
    /\ last_success = clock
    /\ log = <<>>
    /\ ~outage_open
    /\ start_of_failure = None

\* C9: no probe keeps the control thread for more than timeout * 1.25.
C9_ProbesBounded ==
    pc \in {"resolve", "ping", "join"} => clock - call_start <= PingDeadline

\* C10: at the end of an iteration the loop sleeps MONITORING_INTERVAL -
\* time_taken if time_taken < MONITORING_INTERVAL and does not sleep
\* otherwise; the sleep is never negative; the next iteration does not start
\* before loop_start + MONITORING_INTERVAL.
C10_Pacing ==
    [][/\ ((DeepCheckStep \/ SuccessStep)
             => /\ time_taken' = clock - loop_start
                /\ IF clock - loop_start < MONITORING_INTERVAL
                   THEN /\ pc' = "sleep"
                        /\ time_to_sleep_in_seconds'
                              = MONITORING_INTERVAL - (clock - loop_start)
                        /\ time_to_sleep_in_seconds' >= 0
                   ELSE pc' = "for")
       /\ ((pc = "for" /\ pc' = "resolve" /\ loop_start # None)
             => loop_start' >= loop_start + MONITORING_INTERVAL)]_vars

\* an iteration that slept has been followed by one that overran
C10_Witness ==
    /\ pc = "for"
    /\ iteration >= 1
    /\ time_taken > MONITORING_INTERVAL
    /\ time_to_sleep_in_seconds # None
    /\ time_to_sleep_in_seconds > 0

\* ---- the cursor, the errors and the deep check -------------------------
\* the control thread is inside deep_check
InDeepCheck == pc \in {"deep_check", "ping", "join", "queue.get"}
\* the targets of the configuration, in the order of the two loops
AllTargets ==
    [k \in 1..TotalChecks |->
        IF k <= ICMP_TARGETS THEN <<"icmp", k - 1>>
        ELSE <<"web", k - 1 - ICMP_TARGETS>>]
\* a probe's child process is alive: the ping binary or the TimedRequest process
ChildrenAlive ==
    (IF pc = "ping" THEN 1 ELSE 0) + (IF process = "running" THEN 1 ELSE 0)

\* the pair number of iteration k is k mod N, whatever else happened
C11_CursorRoundRobin ==
    iteration # None =>
        /\ dns_pair = iteration % NumDnsPairs
        /\ cycle_pos = (iteration + 1) % NumDnsPairs

\* C11: the loop is never left, and iteration k uses DNS pair k mod N.
C11_RunsForeverRoundRobin ==
    /\ pc # "raised"
    /\ C11_CursorRoundRobin

\* C12: whatever way the fast probe ends without an answer, the iteration
\* goes on to deep_check; no error of a probe ends the loop.
C12_ErrorsFolded ==
    [][/\ (pc = "resolve" /\ pc' # "resolve")
            => pc' \in {"deep_check", "sleep", "for"}
       /\ pc' # "raised"]_vars

\* C13: website_alive succeeds exactly when the child put, before the
\* timeout, a response with headers on the queue, whatever its status.
C13_WebsiteAlive ==
    [][(pc = "join" /\ pc' = "deep_check")
          => (probe_results'[Len(probe_results')]
                <=> (/\ process = "exited"
                     /\ queue # <<>>
                     /\ HasHeaders(Head(queue))))]_vars

\* C14: with an empty target list no iteration is started and no probe run.
C14_InvalidConfigIsFatal ==
    (ICMP_TARGETS = 0 \/ WEB_TARGETS = 0) => (iteration = None /\ pc # "resolve")

\* C15: deep_check is called once in an iteration whose fast probe failed
\* and not at all in one whose fast probe succeeded, and only after the fast
\* probe has ended; the outage state is changed only by the step that ends
\* the iteration, after them.
C15_DeepCheckOncePerFailure ==
    /\ [](/\ pc = "resolve" => deep_checks = 0
          /\ InDeepCheck => (answer = "None" /\ deep_checks = 1)
          /\ IterationDone =>
                deep_checks = (IF answer = "None" THEN 1 ELSE 0))
    /\ [][(\/ start_of_failure' # start_of_failure
           \/ outage_open' # outage_open
           \/ last_success' # last_success
           \/ (log' # log /\ log' # <<>>))
             => (/\ pc \in {"resolve", "deep_check"}
                 /\ pc' \in {"sleep", "for"}
                 /\ pc = "deep_check" => LoopsDone)]_vars

\* an iteration whose fast probe failed has ended after its one deep check
C15_Witness ==
    /\ IterationDone
    /\ answer = "None"
    /\ deep_checks = 1
    /\ Len(log) = 1
    /\ TotalChecks > 0

\* C16: deep_check starts one probe for each target, in order, never two
\* for the same target, and returns only when every target has been probed.
C16_EveryTargetOnce ==
    /\ [](/\ Len(probed) <= TotalChecks
          /\ \A k \in DOMAIN probed : probed[k] = AllTargets[k]
          /\ DeepCheckDone =>
                (probed = AllTargets /\ Len(probe_results) = TotalChecks))
    /\ [][(pc \in {"ping", "join"} /\ pc' = "deep_check")
             => /\ Len(probe_results') = Len(probe_results) + 1
                /\ Len(probe_results') = Len(probed)]_vars

\* deep_check went on to the last target although the failures already
\* exceeded the threshold
C16_Witness ==
    /\ DeepCheckDone
    /\ TotalChecks = 3
    /\ probed = AllTargets
    /\ IsOutage(1, TotalChecks, OUTAGE_THRESHOLD)
    /\ ~probe_results[1]
    /\ ~probe_results[2]

\* C17: at most one probe child is alive at any time, and none is alive when
\* the control thread is outside a probe, so none when the outage state is
\* changed or the iteration ends.
C17_NoChildOutlivesItsProbe ==
    /\ [](/\ ChildrenAlive <= 1
          /\ process = "running" => pc = "join"
          /\ pc \in {"for", "resolve", "deep_check", "sleep"} => process = "none")
    /\ [][(\/ start_of_failure' # start_of_failure
           \/ outage_open' # outage_open
           \/ log' # log)
             => (ChildrenAlive = 0 /\ ChildrenAlive' = 0)]_vars

\* a web probe's child was terminated at the timeout and the state was
\* updated after the deep check
C17_Witness ==
    /\ IterationDone
    /\ DeepCheckDone
    /\ WEB_TARGETS > 0
    /\ ~probe_results[Len(probe_results)]
    /\ time_taken >= TIMEOUT
    /\ process = "none"

\* C18: the control thread never waits in queue.get() on a queue on which
\* nothing will ever be put.
C18_QueueGetNeverBlocks ==
    ~(pc = "queue.get" /\ queue = <<>> /\ process # "running")

\* C19: the logged duration of an outage is not negative, and the recorded
\* start time is never later than the clock.
C19_DurationNotNegative ==
    /\ [](start_of_failure <= clock)
    /\ [][(SawRecovery \in Range(log') /\ SawRecovery \notin Range(log))
             => /\ outage_duration_seconds' >= 0
                /\ outage_duration_seconds' = clock - start_of_failure
                /\ start_of_failure <= last_success']_vars

\* an outage of at least one interval has been ended and its duration logged
C19_Witness ==
    /\ IterationDone
    /\ log = <<SawRecovery>>
    /\ last_success = clock
    /\ outage_duration_seconds >= MONITORING_INTERVAL
====
